---- MODULE Spec2Model ----
(***************************************************************************)
(* Model of lib/broccoli/broccoli-typescript.js: the DiffingTSCompiler     *)
(* plugin (file registry, root file list, first-run / previous-run-failed  *)
(* flags, cache directory) and its rebuild(treeDiff) entry point.          *)
(*                                                                         *)
(* rebuild is single threaded and synchronous.  It is modelled one loop    *)
(* iteration per step; `pc` holds the position inside rebuild and "idle"   *)
(* is the state between two calls.  The TypeScript language service and    *)
(* the file system are external: every answer they give (emitSkipped, the  *)
(* diagnostics, a failing write) is a nondeterministic input of the step   *)
(* that asks for it.                                                       *)
(***************************************************************************)
EXTENDS FiniteSets, Integers, Sequences, TLC

\* ------------------------------------------------------------------ bounds
\* longest changedPaths / removedPaths list of one treeDiff
MaxDiffLen == 2
\* number of rebuild calls the host makes
MaxCycles == 2

\* project-relative source paths the host reports (already filtered to .ts)
SourcePaths == {"a.ts", "b.ts"}

\* ------------------------------------------------------- pure JS helpers
Max(a, b) == IF a > b THEN a ELSE b

Min(a, b) == IF a < b THEN a ELSE b

\* the set of elements of a sequence
Range(s) == {s[n] : n \in 1..Len(s)}

\* number of entries of s equal to e
Count(s, e) == Cardinality({n \in 1..Len(s) : s[n] = e})

\* sequences over S of length at most n
SeqsUpTo(S, n) == UNION {[1..m -> S] : m \in 0..n}

\* Array.prototype.indexOf: 0-based index of the first match, -1 when absent
IndexOf(s, e) ==
    IF e \in Range(s)
    THEN (CHOOSE n \in 1..Len(s) : s[n] = e /\ \A m \in 1..(n - 1) : s[m] # e) - 1
    ELSE -1

\* Array.prototype.splice(start, 1): a negative start counts from the end
Splice1(s, start) ==
    LET actualStart == IF start < 0 THEN Max(Len(s) + start, 0) ELSE Min(start, Len(s))
    IN  IF actualStart < Len(s)
        THEN SubSeq(s, 1, actualStart) \o SubSeq(s, actualStart + 2, Len(s))
        ELSE s

\* String.prototype.replace(/\.ts$/, repl)
ReplaceDotTs(str, repl) ==
    IF Len(str) >= 3 /\ SubSeq(str, Len(str) - 2, Len(str)) = ".ts"
    THEN SubSeq(str, 1, Len(str) - 3) \o repl
    ELSE str

\* String.prototype.replace(/.ts$/, repl): the dot is unescaped, any character
ReplaceAnyTs(str, repl) ==
    IF Len(str) >= 3 /\ SubSeq(str, Len(str) - 1, Len(str)) = "ts"
    THEN SubSeq(str, 1, Len(str) - 3) \o repl
    ELSE str

\* paths are kept relative to cachePath (path.join(this.cachePath, ...))
JsFilePath(tsFilePath) == ReplaceDotTs(tsFilePath, ".js")

MapFilePath(tsFilePath) == ReplaceAnyTs(tsFilePath, ".js.map")

DtsFilePath(tsFilePath) == ReplaceDotTs(tsFilePath, ".d.ts")

\* ------------------------------------------------------------ file registry
\* fileRegistry[p] is undefined (never assigned), null (line 51) or { version }
Undefined == [kind |-> "undefined", version |-> 0]

Null == [kind |-> "null", version |-> 0]

FileRecord(v) == [kind |-> "object", version |-> v]

\* JS truthiness of a registry slot: !fileRegistry[p] is true for undefined and null
Truthy(slot) == slot.kind = "object"

\* lines 38-44 without the version++ of line 43
RegistryAfterChangeNoIncrement(registry, tsFilePath) ==
    IF ~Truthy(registry[tsFilePath])
    THEN [registry EXCEPT ![tsFilePath] = FileRecord(0)]
    ELSE registry

\* lines 38-44: the registry after one changed path
RegistryAfterChange(registry, tsFilePath) ==
    IF ~Truthy(registry[tsFilePath])
    THEN [registry EXCEPT ![tsFilePath] = FileRecord(0)]
    ELSE [registry EXCEPT ![tsFilePath] = FileRecord(registry[tsFilePath].version + 1)]

\* lines 38-41: the root file list after one changed path
RootsAfterChange(registry, roots, tsFilePath) ==
    IF ~Truthy(registry[tsFilePath]) THEN Append(roots, tsFilePath) ELSE roots

\* line 50: rootFilePaths.splice(rootFilePaths.indexOf(p), 1)
RootsAfterRemove(roots, tsFilePath) == Splice1(roots, IndexOf(roots, tsFilePath))

\* getScriptVersion: fileRegistry[f] && fileRegistry[f].version.toString();
\* the decimal string is kept as its number, -1 stands for the falsy slot
\* (undefined or null) that is returned as it is
GetScriptVersion(registry, fileName) ==
    IF Truthy(registry[fileName]) THEN registry[fileName].version ELSE -1

\* ------------------------------------------------------ stale output removal
\* removeOutputFor unlinking only the files that exist
RemoveOutputForLenient(files, tsFilePath) ==
    [files |-> files \ {JsFilePath(tsFilePath), MapFilePath(tsFilePath),
                        DtsFilePath(tsFilePath)},
     threw |-> FALSE]

\* removeOutputFor: the cache after the unlinks and whether an unlink threw
RemoveOutputFor(files, tsFilePath) ==
    LET js  == JsFilePath(tsFilePath)
        map == MapFilePath(tsFilePath)
        dts == DtsFilePath(tsFilePath)
    IN  IF js \notin files THEN [files |-> files, threw |-> FALSE]
        ELSE IF map \notin files THEN [files |-> files \ {js}, threw |-> TRUE]
        ELSE IF dts \notin files THEN [files |-> files \ {js, map}, threw |-> TRUE]
        ELSE [files |-> files \ {js, map, dts}, threw |-> FALSE]

\* ------------------------------------------------------------------- state
VARIABLES
    fileRegistry,       \* this.fileRegistry
    rootFilePaths,      \* this.rootFilePaths (shared with the service host)
    firstRun,           \* this.firstRun
    previousRunFailed,  \* this.previousRunFailed
    tsOpts,             \* this.tsOpts: which artifacts the service emits
    cache,              \* files present under this.cachePath
    pc,                 \* position inside rebuild; "idle" between calls
    treeDiff,           \* argument of the running (or last) rebuild
    idx,                \* 1-based position of the running forEach
    pathsToEmit,        \* local of rebuild
    pathsWithErrors,    \* local of rebuild
    requests,           \* requests made to tsService in this cycle, in order
    startState,         \* firstRun / previousRunFailed when rebuild was called
    outcome,            \* how the last rebuild ended
    cycles,             \* number of rebuild calls so far
    changedCalls        \* per path: reports as changed, in total and since creation

vars == <<fileRegistry, rootFilePaths, firstRun, previousRunFailed, tsOpts, cache,
          pc, treeDiff, idx, pathsToEmit, pathsWithErrors, requests, startState,
          outcome, cycles, changedCalls>>

\* a path list of a tree diff names every path at most once
PathLists == {s \in SeqsUpTo(SourcePaths, MaxDiffLen) : \A e \in SourcePaths : Count(s, e) <= 1}

\* the diffs the host hands to rebuild; a path may be in both lists
TreeDiffs == {[changedPaths |-> c, removedPaths |-> r] : c \in PathLists, r \in PathLists}

\* options.rootFilePaths given to the constructor: none, or one root file
InitialRootFilePaths == {<<>>, <<"a.ts">>}

\* constructor, lines 18-31; the cache directory of a new plugin is empty
Init ==
    /\ fileRegistry = [p \in SourcePaths |-> Undefined]
    /\ rootFilePaths \in InitialRootFilePaths
    /\ firstRun = TRUE
    /\ previousRunFailed = FALSE
    /\ tsOpts \in [sourceMap : BOOLEAN, declaration : BOOLEAN]
    /\ cache = {}
    /\ pc = "idle"
    /\ treeDiff = [changedPaths |-> <<>>, removedPaths |-> <<>>]
    /\ idx = 1
    /\ pathsToEmit = <<>>
    /\ pathsWithErrors = <<>>
    /\ requests = <<>>
    /\ startState = [firstRun |-> TRUE, previousRunFailed |-> FALSE]
    /\ outcome = "none"
    /\ cycles = 0
    /\ changedCalls = [p \in SourcePaths |-> [total |-> 0, sinceCreation |-> 0]]

\* rebuild going from the changedPaths loop straight to the build
AfterChangedPathsSkipRemoval(diff) == "build"

\* where rebuild continues once the changedPaths loop is over
AfterChangedPaths(diff) ==
    IF Len(diff.removedPaths) > 0 THEN "removedPaths" ELSE "build"

\* line 32: the host calls rebuild(treeDiff)
Rebuild(diff) ==
    /\ pc = "idle"
    /\ cycles < MaxCycles
    /\ cycles' = cycles + 1
    /\ treeDiff' = diff
    /\ pathsToEmit' = <<>>
    /\ pathsWithErrors' = <<>>
    /\ requests' = <<>>
    /\ idx' = 1
    /\ startState' = [firstRun |-> firstRun, previousRunFailed |-> previousRunFailed]
    /\ outcome' = "running"
    /\ pc' = IF Len(diff.changedPaths) > 0 THEN "changedPaths" ELSE AfterChangedPaths(diff)
    /\ UNCHANGED <<fileRegistry, rootFilePaths, firstRun, previousRunFailed, tsOpts,
                   cache, changedCalls>>

\* lines 36-46: one iteration of treeDiff.changedPaths.forEach
MarkChanged ==
    /\ pc = "changedPaths"
    /\ LET tsFilePath == treeDiff.changedPaths[idx]
           created == ~Truthy(fileRegistry[tsFilePath])
       IN  /\ fileRegistry' = RegistryAfterChange(fileRegistry, tsFilePath)
           /\ rootFilePaths' = RootsAfterChange(fileRegistry, rootFilePaths, tsFilePath)
           /\ pathsToEmit' = Append(pathsToEmit, tsFilePath)
           /\ changedCalls' = [changedCalls EXCEPT ![tsFilePath] =
                  [total |-> @.total + 1,
                   sinceCreation |-> IF created THEN 1 ELSE @.sinceCreation + 1]]
    /\ IF idx < Len(treeDiff.changedPaths)
       THEN idx' = idx + 1 /\ pc' = pc
       ELSE idx' = 1 /\ pc' = AfterChangedPaths(treeDiff)
    /\ UNCHANGED <<firstRun, previousRunFailed, tsOpts, cache, treeDiff,
                   pathsWithErrors, requests, startState, outcome, cycles>>

\* lines 47-53: one iteration of treeDiff.removedPaths.forEach; an unlinkSync
\* of a missing file throws and the exception leaves rebuild
MarkRemoved ==
    /\ pc = "removedPaths"
    /\ LET tsFilePath == treeDiff.removedPaths[idx]
           removal == RemoveOutputFor(cache, tsFilePath)
       IN  /\ rootFilePaths' = RootsAfterRemove(rootFilePaths, tsFilePath)
           /\ fileRegistry' = [fileRegistry EXCEPT ![tsFilePath] = Null]
           /\ changedCalls' = [changedCalls EXCEPT ![tsFilePath].sinceCreation = 0]
           /\ cache' = removal.files
           /\ IF removal.threw
              THEN pc' = "idle" /\ outcome' = "ENOENT" /\ idx' = idx
              ELSE /\ outcome' = outcome
                   /\ IF idx < Len(treeDiff.removedPaths)
                      THEN idx' = idx + 1 /\ pc' = pc
                      ELSE idx' = 1 /\ pc' = "build"
    /\ UNCHANGED <<firstRun, previousRunFailed, tsOpts, treeDiff, pathsToEmit,
                   pathsWithErrors, requests, startState, cycles>>

\* ------------------------------------------------- the language service
\* diagnostics a request can report: none, some that all carry a file, or
\* some of which at least one has no file (a global / compiler-options one)
Diagnostics == {"none", "withFile", "noFile"}

\* output.outputFiles / the files program.emit hands to its write callback for
\* one source file, in the order the service writes them; the names are the
\* ones removeOutputFor expects under cachePath
OutputFiles(opts, tsFilePath) ==
    (IF opts.sourceMap THEN <<MapFilePath(tsFilePath)>> ELSE <<>>)
    \o <<JsFilePath(tsFilePath)>>
    \o (IF opts.declaration THEN <<DtsFilePath(tsFilePath)>> ELSE <<>>)

RECURSIVE ProgramOutputFiles(_, _)
\* program.emit(undefined, cb): the output files of every root file, in order
ProgramOutputFiles(opts, roots) ==
    IF roots = <<>> THEN <<>>
    ELSE OutputFiles(opts, Head(roots)) \o ProgramOutputFiles(opts, Tail(roots))

\* the files the first n writeFileSync calls of a write loop leave behind
Written(files, n) == Range(SubSeq(files, 1, n))

\* logError that never reports an error
LogErrorNever(diagnostics) == FALSE

\* logError, line 99: return !!allDiagnostics.length (a diagnostic without a
\* file is logged by the else branch of line 95)
LogError(diagnostics) == diagnostics # "none"

\* lines 75-81 without the else-if branch of line 79
FinishStepNoRecovery(errors, prevFailed) ==
    IF Len(errors) > 0 THEN "throw" ELSE "return"

\* lines 75-81 with the test of line 79 made before the test of line 75
FinishStepBuildWhenDegraded(errors, prevFailed) ==
    IF prevFailed THEN "doFullBuild"
    ELSE IF Len(errors) > 0 THEN "throw"
    ELSE "return"

\* lines 75-81 with the else-if of line 79 taken whatever previousRunFailed is
FinishStepAlwaysBuild(errors, prevFailed) ==
    IF Len(errors) > 0 THEN "throw" ELSE "doFullBuild"

\* lines 75-81: what rebuild does once every changed path was emitted
FinishStep(errors, prevFailed) ==
    IF Len(errors) > 0 THEN "throw"
    ELSE IF prevFailed THEN "doFullBuild"
    ELSE "return"

\* doFullBuild, lines 107-123: previousRunFailed after a full build whose
\* writes all succeeded.  Line 111 dereferences diagnostic.file, so a
\* diagnostic without a file raises a TypeError before line 116 is reached.
FullBuildFlag(prevFailed, emitSkipped, diagnostics) ==
    IF ~emitSkipped THEN prevFailed
    ELSE IF diagnostics = "noFile" THEN prevFailed
    ELSE IF diagnostics = "withFile" THEN TRUE
    ELSE FALSE

\* doFullBuild, lines 107-123: how the call ends
FullBuildOutcome(emitSkipped, diagnostics) ==
    IF ~emitSkipped THEN "returned"
    ELSE IF diagnostics = "noFile" THEN "TypeError"
    ELSE IF diagnostics = "withFile" THEN "Error"
    ELSE "returned"

\* doFullBuild, lines 101-124.  A skipped emit may still have written some
\* files; a writeFileSync that fails throws out of program.emit and rebuild.
DoFullBuild ==
    LET files == ProgramOutputFiles(tsOpts, rootFilePaths)
    IN  \E result \in {"emitted", "skipped", "writeFailed"}, diagnostics \in Diagnostics,
           written \in 0..Len(files) :
            /\ result # "skipped" => diagnostics = "none"
            /\ result = "emitted" => written = Len(files)
            /\ result = "writeFailed" => written < Len(files)
            /\ requests' = Append(requests,
                   [op |-> "program.emit", file |-> "undefined", result |-> result,
                    diagnostics |-> diagnostics])
            /\ cache' = cache \cup Written(files, written)
            /\ IF result = "writeFailed"
               THEN /\ outcome' = "EIO"
                    /\ previousRunFailed' = previousRunFailed
               ELSE /\ outcome' = FullBuildOutcome(result = "skipped", diagnostics)
                    /\ previousRunFailed' =
                           FullBuildFlag(previousRunFailed, result = "skipped", diagnostics)
            /\ pc' = "idle"

\* lines 54-57 without the assignment of line 55
FirstBuildKeepsFirstRun ==
    /\ pc = "build"
    /\ firstRun
    /\ firstRun' = firstRun
    /\ DoFullBuild
    /\ UNCHANGED <<fileRegistry, rootFilePaths, tsOpts, treeDiff, idx, pathsToEmit,
                   pathsWithErrors, startState, cycles, changedCalls>>

\* lines 54-57: the first run
FirstBuild ==
    /\ pc = "build"
    /\ firstRun
    /\ firstRun' = FALSE
    /\ DoFullBuild
    /\ UNCHANGED <<fileRegistry, rootFilePaths, tsOpts, treeDiff, idx, pathsToEmit,
                   pathsWithErrors, startState, cycles, changedCalls>>

\* lines 59-74 with the error thrown inside the loop, at the first failed path
EmitPathFailFast ==
    /\ pc = "build"
    /\ ~firstRun
    /\ idx <= Len(pathsToEmit)
    /\ LET tsFilePath == pathsToEmit[idx]
           files == OutputFiles(tsOpts, tsFilePath)
       IN  \/ \E diagnostics \in Diagnostics :
                /\ requests' = Append(requests,
                       [op |-> "getEmitOutput", file |-> tsFilePath,
                        result |-> "skipped", diagnostics |-> diagnostics])
                /\ cache' = cache
                /\ IF diagnostics # "none"
                   THEN /\ pathsWithErrors' = Append(pathsWithErrors, tsFilePath)
                        /\ pc' = "idle" /\ outcome' = "Error" /\ idx' = idx
                   ELSE /\ pathsWithErrors' = pathsWithErrors
                        /\ pc' = pc /\ outcome' = outcome /\ idx' = idx + 1
           \/ \E written \in 0..Len(files) :
                /\ requests' = Append(requests,
                       [op |-> "getEmitOutput", file |-> tsFilePath,
                        result |-> IF written < Len(files) THEN "writeFailed" ELSE "emitted",
                        diagnostics |-> "none"])
                /\ pathsWithErrors' = pathsWithErrors
                /\ cache' = cache \cup Range(SubSeq(files, 1, written))
                /\ IF written < Len(files)
                   THEN pc' = "idle" /\ outcome' = "EIO" /\ idx' = idx
                   ELSE pc' = pc /\ outcome' = outcome /\ idx' = idx + 1
    /\ UNCHANGED <<fileRegistry, rootFilePaths, firstRun, previousRunFailed, tsOpts,
                   treeDiff, pathsToEmit, startState, cycles, changedCalls>>

\* lines 59-74: one iteration of pathsToEmit.forEach.  On emitSkipped the
\* path is logged and nothing is written; otherwise the output files are
\* written in order and a writeFileSync that fails throws out of rebuild.
EmitPath ==
    /\ pc = "build"
    /\ ~firstRun
    /\ idx <= Len(pathsToEmit)
    /\ LET tsFilePath == pathsToEmit[idx]
           files == OutputFiles(tsOpts, tsFilePath)
       IN  \/ \E diagnostics \in Diagnostics :
                /\ requests' = Append(requests,
                       [op |-> "getEmitOutput", file |-> tsFilePath,
                        result |-> "skipped", diagnostics |-> diagnostics])
                /\ pathsWithErrors' =
                       IF LogError(diagnostics)
                       THEN Append(pathsWithErrors, tsFilePath)
                       ELSE pathsWithErrors
                /\ cache' = cache
                /\ pc' = pc /\ outcome' = outcome /\ idx' = idx + 1
           \/ \E written \in 0..Len(files) :
                /\ requests' = Append(requests,
                       [op |-> "getEmitOutput", file |-> tsFilePath,
                        result |-> IF written < Len(files) THEN "writeFailed" ELSE "emitted",
                        diagnostics |-> "none"])
                /\ pathsWithErrors' = pathsWithErrors
                /\ cache' = cache \cup Written(files, written)
                /\ IF written < Len(files)
                   THEN pc' = "idle" /\ outcome' = "EIO" /\ idx' = idx
                   ELSE pc' = pc /\ outcome' = outcome /\ idx' = idx + 1
    /\ UNCHANGED <<fileRegistry, rootFilePaths, firstRun, previousRunFailed, tsOpts,
                   treeDiff, pathsToEmit, startState, cycles, changedCalls>>

\* lines 75-81: after the emit loop
Finish ==
    /\ pc = "build"
    /\ ~firstRun
    /\ idx > Len(pathsToEmit)
    /\ LET step == FinishStep(pathsWithErrors, previousRunFailed)
       IN  IF step = "throw"
           THEN /\ previousRunFailed' = TRUE
                /\ outcome' = "Error"
                /\ pc' = "idle"
                /\ UNCHANGED <<cache, requests>>
           ELSE IF step = "doFullBuild"
           THEN DoFullBuild
           ELSE /\ outcome' = "returned"
                /\ pc' = "idle"
                /\ UNCHANGED <<previousRunFailed, cache, requests>>
    /\ UNCHANGED <<fileRegistry, rootFilePaths, firstRun, tsOpts, treeDiff, idx,
                   pathsToEmit, pathsWithErrors, startState, cycles, changedCalls>>

Next ==
    \/ \E diff \in TreeDiffs : Rebuild(diff)
    \/ MarkChanged
    \/ MarkRemoved
    \/ FirstBuild
    \/ EmitPath
    \/ Finish

Spec == Init /\ [][Next]_vars

\* ------------------------------------------------------------- properties
\* a rebuild call has ended (returned or thrown) and no other is running
CycleEnded == pc = "idle" /\ outcome # "none"

StartedDegraded == ~startState.firstRun /\ startState.previousRunFailed

StartedSteady == ~startState.firstRun /\ ~startState.previousRunFailed

\* the whole-program emit was requested in this cycle
FullBuildRequested == \E n \in 1..Len(requests) : requests[n].op = "program.emit"

\* the positions of the per-path emit requests of this cycle
PathRequests == {n \in 1..Len(requests) : requests[n].op = "getEmitOutput"}

\* no exception left rebuild before line 75: no unlink and no per-path write failed
EmitLoopCompleted ==
    /\ outcome # "ENOENT"
    /\ \A n \in PathRequests : requests[n].result # "writeFailed"

\* the whole-program emit of this cycle was skipped and reported diagnostics
FullBuildReportedErrors ==
    \E n \in 1..Len(requests) :
        /\ requests[n].op = "program.emit"
        /\ requests[n].result = "skipped"
        /\ requests[n].diagnostics # "none"

\* C1 as stated: every cycle that starts DEGRADED (firstRun false,
\* previousRunFailed true) and is not cut short by a file system exception
\* requests a full build, whatever the per-path emits answered.
C1_DegradedAlwaysFullBuild ==
    (CycleEnded /\ StartedDegraded /\ EmitLoopCompleted) => FullBuildRequested

\* C1 amended: in a cycle that starts DEGRADED and reaches line 75, a full
\* build is requested exactly when no changed path was recorded as failed;
\* with a failed path rebuild throws 'errors found' without a full build.
C1_DegradedFullBuildUnlessPathFailed ==
    (CycleEnded /\ StartedDegraded /\ EmitLoopCompleted) =>
        /\ FullBuildRequested <=> (pathsWithErrors = <<>>)
        /\ pathsWithErrors # <<>> => (outcome = "Error" /\ previousRunFailed)

\* a DEGRADED cycle emitted a changed path and then ran the full build
C1_Witness ==
    /\ CycleEnded /\ StartedDegraded /\ EmitLoopCompleted
    /\ PathRequests # {}
    /\ FullBuildRequested

\* C2 as stated: whenever a full build completes without reporting errors
\* (doFullBuild returns normally), previousRunFailed is false afterwards.
C2_CleanFullBuildClearsFlag ==
    (CycleEnded /\ FullBuildRequested /\ outcome = "returned") => ~previousRunFailed

\* this cycle ended with at least one file failing to emit
CycleHadFailure == pathsWithErrors # <<>> \/ FullBuildReportedErrors

\* C3 as stated: after every cycle that returned or threw 'errors found',
\* previousRunFailed is true exactly when a file failed to emit in that cycle.
C3_FlagIffFileFailed ==
    (CycleEnded /\ outcome \in {"returned", "Error"}) =>
        (previousRunFailed <=> CycleHadFailure)

\* the per-path emit requests of this cycle that were answered emitSkipped
SkippedPathRequests == {n \in PathRequests : requests[n].result = "skipped"}

\* the step just made a per-path emit request that was answered emitSkipped
SkippedEmitStep ==
    /\ Len(requests') = Len(requests) + 1
    /\ requests'[Len(requests')].op = "getEmitOutput"
    /\ requests'[Len(requests')].result = "skipped"

\* C4 as stated: in a STEADY cycle (not cut short by a file system
\* exception) every changed path whose emit was skipped is recorded as
\* failed, previousRunFailed becomes true and rebuild throws.
C4_SkippedEmitFailsCycle ==
    (CycleEnded /\ StartedSteady /\ EmitLoopCompleted) =>
        \A n \in SkippedPathRequests :
            /\ requests[n].file \in Range(pathsWithErrors)
            /\ previousRunFailed
            /\ outcome = "Error"

\* C4 amended: in a STEADY cycle every changed path whose emit was skipped
\* and for which logError collected at least one diagnostic is recorded as
\* failed and rebuild throws; previousRunFailed becomes true unless a later
\* writeFileSync of the emit loop throws first.  The step that gets the
\* skipped answer writes nothing to the cache.
C4_SkippedWithDiagnosticsFailsCycle ==
    /\ [] ((CycleEnded /\ StartedSteady) =>
              \A n \in SkippedPathRequests :
                  requests[n].diagnostics # "none" =>
                      /\ requests[n].file \in Range(pathsWithErrors)
                      /\ outcome \in {"Error", "EIO"}
                      /\ EmitLoopCompleted => (outcome = "Error" /\ previousRunFailed))
    /\ [][SkippedEmitStep => cache' = cache]_vars

\* a STEADY cycle ended DEGRADED with a failed path
C4_Witness ==
    /\ CycleEnded /\ StartedSteady
    /\ \E n \in SkippedPathRequests : requests[n].diagnostics # "none"
    /\ pathsWithErrors # <<>>
    /\ outcome = "Error"
    /\ previousRunFailed

\* C5: a cycle that starts with firstRun = true requests the full build and
\* no per-path emit and leaves firstRun false; when it returns normally
\* previousRunFailed is false; firstRun never becomes true again and no
\* later cycle starts with it.
C5_FirstCycleFullBuildOnce ==
    /\ [] ((CycleEnded /\ startState.firstRun) =>
              /\ FullBuildRequested
              /\ PathRequests = {}
              /\ ~firstRun
              /\ outcome = "returned" => ~previousRunFailed)
    /\ [] (cycles >= 2 => ~startState.firstRun)
    /\ [][~firstRun => ~firstRun']_vars

\* the first cycle had a changed path, built everything and returned
C5_Witness ==
    /\ CycleEnded /\ startState.firstRun
    /\ treeDiff.changedPaths # <<>>
    /\ outcome = "returned"
    /\ ~firstRun /\ ~previousRunFailed

\* C6 as stated: whenever the full build reports error diagnostics,
\* previousRunFailed is true afterwards and rebuild does not return normally.
C6_FullBuildErrorsSetFlagAndThrow ==
    (CycleEnded /\ FullBuildReportedErrors) =>
        (previousRunFailed /\ outcome # "returned")

\* the path the running changedPaths / removedPaths iteration works on
CurrentChanged == treeDiff.changedPaths[idx]

CurrentRemoved == treeDiff.removedPaths[idx]

\* C7 as stated: a path reported changed while it has no live FileRecord
\* gets a record with version 0 and is in rootFilePaths exactly once, and
\* rootFilePaths never holds a path twice.
C7_FirstSeenOnceInRootSet ==
    /\ [][(pc = "changedPaths" /\ ~Truthy(fileRegistry[CurrentChanged])) =>
             /\ fileRegistry'[CurrentChanged] = FileRecord(0)
             /\ Count(rootFilePaths', CurrentChanged) = 1]_vars
    /\ [] (\A p \in SourcePaths : Count(rootFilePaths, p) <= 1)

C9_RemovedPathGone ==
    [][(pc = "removedPaths" /\ Truthy(fileRegistry[CurrentRemoved])) =>
          /\ CurrentRemoved \notin Range(rootFilePaths')
          /\ fileRegistry'[CurrentRemoved] = Null
          /\ cache' \cap {JsFilePath(CurrentRemoved), MapFilePath(CurrentRemoved),
                          DtsFilePath(CurrentRemoved)} = {}]_vars

\* C10 as stated: the removal of a path without a live FileRecord ends the
\* cycle with an error.
C10_UntrackedRemovalAborts ==
    [][(pc = "removedPaths" /\ ~Truthy(fileRegistry[CurrentRemoved])) =>
          (pc' = "idle" /\ outcome' \notin {"running", "returned"})]_vars

\* the paths that have a live (truthy) FileRecord
LivePaths == {p \in SourcePaths : Truthy(fileRegistry[p])}

\* C11 as stated: between two cycles the paths in rootFilePaths are exactly
\* the paths with a live FileRecord.
C11_RootSetMatchesRegistry ==
    CycleEnded => Range(rootFilePaths) = LivePaths

\* C12 as stated: a cycle that starts DEGRADED makes no per-path emit request.
C12_DegradedNoPathEmit ==
    (CycleEnded /\ StartedDegraded) => PathRequests = {}

\* C12 amended: a cycle that starts DEGRADED requests the per-path emit of
\* every changed path, in diff order, before anything else; the full build
\* is requested last, after all of them, and not at all when a changed path
\* was recorded as failed: that failure alone makes rebuild throw.
C12_DegradedEmitsPathsFirst ==
    (StartedDegraded /\ outcome # "none") =>
        /\ \A n \in PathRequests :
              /\ n <= Len(treeDiff.changedPaths)
              /\ requests[n].file = treeDiff.changedPaths[n]
        /\ \A n \in (1..Len(requests)) \ PathRequests :
              n = Len(requests) /\ n = Len(treeDiff.changedPaths) + 1
        /\ (CycleEnded /\ EmitLoopCompleted) =>
              /\ PathRequests = 1..Len(treeDiff.changedPaths)
              /\ pathsWithErrors # <<>> => (~FullBuildRequested /\ outcome = "Error")

\* a DEGRADED cycle was ended by the failure of a per-path emit
C12_Witness ==
    /\ CycleEnded /\ StartedDegraded
    /\ PathRequests # {}
    /\ pathsWithErrors # <<>>
    /\ outcome = "Error"

\* C13: a cycle that starts STEADY requests no full build; its requests are
\* per-path emits for the entries of changedPaths, one each, in diff order,
\* and for all of them once the emit loop has run to its end.
C13_SteadyEmitsChangedPathsInOrder ==
    (StartedSteady /\ outcome # "none") =>
        /\ ~FullBuildRequested
        /\ \A n \in 1..Len(requests) :
              /\ n <= Len(treeDiff.changedPaths)
              /\ requests[n].op = "getEmitOutput"
              /\ requests[n].file = treeDiff.changedPaths[n]
        /\ (CycleEnded /\ EmitLoopCompleted) =>
              Len(requests) = Len(treeDiff.changedPaths)

\* a STEADY cycle emitted two changed paths and returned
C13_Witness ==
    /\ CycleEnded /\ StartedSteady
    /\ Len(treeDiff.changedPaths) = 2
    /\ Len(requests) = 2
    /\ outcome = "returned"

\* s without its n-th entry
WithoutEntry(s, n) == SubSeq(s, 1, n - 1) \o SubSeq(s, n + 1, Len(s))

\* C14 as stated: the removal step of a path p leaves rootFilePaths as it is
\* or takes out one entry equal to p; the other entries keep their order.
C14_RemovalTouchesOnlyThePath ==
    [][pc = "removedPaths" =>
          \/ rootFilePaths' = rootFilePaths
          \/ \E n \in 1..Len(rootFilePaths) :
                /\ rootFilePaths[n] = CurrentRemoved
                /\ rootFilePaths' = WithoutEntry(rootFilePaths, n)]_vars

\* C15: when a changed path was recorded as failed and no writeFileSync
\* threw, rebuild throws 'errors found' only after the emit of every changed
\* path was requested; the output files of every path emitted in the cycle
\* are in the cache at that point, and the step that records a failed path
\* writes nothing.
C15_FailureRaisedAfterAllPaths ==
    /\ [] ((CycleEnded /\ pathsWithErrors # <<>> /\ EmitLoopCompleted) =>
              /\ outcome = "Error"
              /\ PathRequests = 1..Len(treeDiff.changedPaths)
              /\ \A n \in PathRequests :
                    requests[n].result = "emitted" =>
                        Range(OutputFiles(tsOpts, requests[n].file)) \subseteq cache)
    /\ [][Len(pathsWithErrors') > Len(pathsWithErrors) => cache' = cache]_vars

\* the first changed path failed, the second was still emitted, then the
\* cycle failed
C15_Witness ==
    /\ CycleEnded /\ outcome = "Error"
    /\ Len(requests) = 2
    /\ requests[1].result = "skipped" /\ requests[1].file \in Range(pathsWithErrors)
    /\ requests[2].result = "emitted"
    /\ Range(OutputFiles(tsOpts, requests[2].file)) \subseteq cache

\* C16: the removal step of a path whose .js file is not in the cache
\* deletes nothing and raises nothing; with the .js, .js.map and .d.ts files
\* all in the cache it deletes the three; with the .js file in the cache and
\* the .js.map or the .d.ts file missing it ends the cycle with the unlink
\* error (the .js file is gone by then).
C16_StaleOutputRemoval ==
    [][pc = "removedPaths" =>
          LET js  == JsFilePath(CurrentRemoved)
              map == MapFilePath(CurrentRemoved)
              dts == DtsFilePath(CurrentRemoved)
          IN  /\ js \notin cache => (cache' = cache /\ outcome' = outcome)
              /\ (js \in cache /\ map \in cache /\ dts \in cache) =>
                     (cache' = cache \ {js, map, dts} /\ outcome' = outcome)
              /\ (js \in cache /\ (map \notin cache \/ dts \notin cache)) =>
                     /\ outcome' = "ENOENT" /\ pc' = "idle"
                     /\ js \notin cache' /\ cache' \subseteq cache]_vars

\* a removal found the .js file without one of its companions and ended the
\* cycle
C16_Witness ==
    /\ CycleEnded /\ outcome = "ENOENT"
    /\ JsFilePath(CurrentRemoved) \notin cache
    /\ fileRegistry[CurrentRemoved] = Null

\* C17: no request is made to the language service while rebuild is in its
\* changedPaths or removedPaths loop; once a request was made, every changed
\* path has been registered and every removed path has been tombstoned, and
\* the steps that make requests leave fileRegistry and rootFilePaths alone;
\* a cycle ended by a failing removal made no request.
C17_RegistryUpdatesBeforeEmit ==
    /\ [] (pc \in {"changedPaths", "removedPaths"} => requests = <<>>)
    /\ [] (outcome = "ENOENT" => requests = <<>>)
    /\ [] ((outcome # "none" /\ requests # <<>>) =>
              /\ pathsToEmit = treeDiff.changedPaths
              /\ \A p \in Range(treeDiff.removedPaths) : fileRegistry[p] = Null)
    /\ [][Len(requests') > Len(requests) =>
              (fileRegistry' = fileRegistry /\ rootFilePaths' = rootFilePaths)]_vars

\* the first per-path emit of a cycle that registered one path and removed
\* another
C17_Witness ==
    /\ Len(requests) = 1 /\ requests[1].op = "getEmitOutput"
    /\ Len(treeDiff.changedPaths) = 1 /\ Len(treeDiff.removedPaths) = 1
    /\ treeDiff.changedPaths[1] # treeDiff.removedPaths[1]
    /\ Truthy(fileRegistry[treeDiff.changedPaths[1]])
    /\ fileRegistry[treeDiff.removedPaths[1]] = Null

\* C18 as stated: every report of p as changed gives p a version larger than
\* the one it had, and larger than every version p had before: versions are
\* integers from 0 on, so the version after the n-th report of p, counted
\* over all cycles and across removals, is at least n-1.
C18_VersionsNeverRepeat ==
    [][pc = "changedPaths" =>
          /\ GetScriptVersion(fileRegistry', CurrentChanged)
                 > GetScriptVersion(fileRegistry, CurrentChanged)
          /\ GetScriptVersion(fileRegistry', CurrentChanged)
                 >= changedCalls'[CurrentChanged].total - 1]_vars

\* C19 as stated: the step that requests the emit of one path finds a live
\* record of that path in fileRegistry and the path in rootFilePaths.
C19_EmittedPathIsLiveRoot ==
    [][(Len(requests') > Len(requests)
            /\ requests'[Len(requests')].op = "getEmitOutput") =>
          /\ Truthy(fileRegistry[requests'[Len(requests')].file])
          /\ requests'[Len(requests')].file \in Range(rootFilePaths)]_vars

\* the ways a cycle ends with an exception
AbortOutcomes == {"Error", "TypeError", "ENOENT", "EIO"}

\* C20 as stated, read at the call of rebuild that follows an aborted cycle:
\* rebuild reaches doFullBuild only on a first run (line 54) or with
\* previousRunFailed set (line 79), so the cycle after an aborted one has to
\* start in one of the two.
C20_AbortedCycleThenFullBuild ==
    [][(cycles' = cycles + 1 /\ outcome \in AbortOutcomes) =>
          (firstRun \/ previousRunFailed)]_vars

====
